---- MODULE Spec2Model ----
(***************************************************************************)
(* Model of quant_factor: WideTable (wide_table.rs), FactorCalculator      *)
(* (factor.rs) and the sample panel of main.rs.                            *)
(*                                                                         *)
(* A DataFrame is a sequence of columns [name, vals]; all columns have the *)
(* same length and distinct names.  A column name is a sequence of tokens: *)
(* a string in which the chunks "_pct_change_" and "_momentum_" and each   *)
(* decimal digit are single symbols, so that contains() and replace() on   *)
(* names are computed symbol by symbol as the code computes them on bytes. *)
(* A value is null, NaN, +/-infinity or an exact rational n/d (f64         *)
(* rounding and the sign of zero are not modelled).                        *)
(***************************************************************************)
EXTENDS Integers, Sequences, FiniteSets, TLC

\* ---------------------------------------------------------------- bounds
MaxRows == 2
MaxPeriods == 2
MaxWidth == 3

\* ---------------------------------------------------------------- values
Null == [k |-> "null", n |-> 0, d |-> 1]
NaN == [k |-> "nan", n |-> 0, d |-> 1]
Inf(s) == [k |-> "inf", n |-> s, d |-> 1]

Abs(x) == IF x < 0 THEN -x ELSE x

Sign(x) == IF x < 0 THEN -1 ELSE 1

RECURSIVE GCD(_, _)
GCD(a, b) == IF b = 0 THEN a ELSE GCD(b, a % b)

\* the rational n/d in lowest terms with a positive denominator
Num(n, d) ==
    LET g == GCD(Abs(n), Abs(d))
    IN  [k |-> "num", n |-> (Sign(d) * n) \div g, d |-> Abs(d) \div g]

IsNull(x) == x.k = "null"

\* f64 addition; a null operand gives null (polars arithmetic on Option)
Add(x, y) ==
    IF IsNull(x) \/ IsNull(y) THEN Null
    ELSE IF x.k = "nan" \/ y.k = "nan" THEN NaN
    ELSE IF x.k = "inf" /\ y.k = "inf" THEN (IF x.n = y.n THEN x ELSE NaN)
    ELSE IF x.k = "inf" THEN x
    ELSE IF y.k = "inf" THEN y
    ELSE Num(x.n * y.d + y.n * x.d, x.d * y.d)

Neg(x) ==
    IF x.k = "num" THEN Num(-x.n, x.d)
    ELSE IF x.k = "inf" THEN Inf(-x.n)
    ELSE x

Sub(x, y) == Add(x, Neg(y))

Mul(x, y) ==
    IF IsNull(x) \/ IsNull(y) THEN Null
    ELSE IF x.k = "nan" \/ y.k = "nan" THEN NaN
    ELSE IF x.k = "inf" \/ y.k = "inf"
         THEN (IF x.n = 0 \/ y.n = 0 THEN NaN ELSE Inf(Sign(x.n) * Sign(y.n)))
    ELSE Num(x.n * y.n, x.d * y.d)

Div(x, y) ==
    IF IsNull(x) \/ IsNull(y) THEN Null
    ELSE IF x.k = "nan" \/ y.k = "nan" THEN NaN
    ELSE IF x.k = "inf" THEN (IF y.k = "inf" THEN NaN ELSE Inf(x.n * Sign(y.n)))
    ELSE IF y.k = "inf" THEN Num(0, 1)
    ELSE IF y.n = 0 THEN (IF x.n = 0 THEN NaN ELSE Inf(Sign(x.n)))
    ELSE Num(x.n * y.d, x.d * y.n)

\* total order used by sort: nulls first, then -inf, finite, +inf, NaN last
Rank(x) ==
    IF x.k = "null" THEN 0
    ELSE IF x.k = "inf" /\ x.n < 0 THEN 1
    ELSE IF x.k = "num" THEN 2
    ELSE IF x.k = "inf" THEN 3
    ELSE 4

LessEq(x, y) ==
    IF x.k = "num" /\ y.k = "num" THEN x.n * y.d <= y.n * x.d
    ELSE Rank(x) <= Rank(y)

\* ----------------------------------------------------------------- names
PCT == "_pct_change_"
MOM == "_momentum_"
DigitTok == <<"0", "1", "2", "3", "4", "5", "6", "7", "8", "9">>

\* decimal rendering of a non-negative integer, as Display for i32 gives it
RECURSIVE Digits(_)
Digits(n) ==
    IF n < 10 THEN <<DigitTok[n + 1]>>
    ELSE Digits(n \div 10) \o <<DigitTok[(n % 10) + 1]>>

\* format!("{}_pct_change_{}", col_name, periods)
PctName(col_name, periods) == col_name \o <<PCT>> \o Digits(periods)

\* format!("{}_momentum_{}", base_col, periods)
MomentumName(base_col, periods) == base_col \o <<MOM>> \o Digits(periods)

\* the literal "_pct_change_1" of momentum()
RetPattern == <<PCT, "1">>

MatchAt(s, i, pat) ==
    /\ i + Len(pat) - 1 <= Len(s)
    /\ \A j \in 1..Len(pat) : s[i + j - 1] = pat[j]

\* str::contains
Contains(s, pat) == \E i \in 1..Len(s) : MatchAt(s, i, pat)

\* str::replace: every non-overlapping match, left to right
RECURSIVE ReplaceFrom(_, _, _, _)
ReplaceFrom(s, i, pat, to) ==
    IF i > Len(s) THEN <<>>
    ELSE IF MatchAt(s, i, pat) THEN to \o ReplaceFrom(s, i + Len(pat), pat, to)
    ELSE <<s[i]>> \o ReplaceFrom(s, i + 1, pat, to)

Replace(s, pat, to) == ReplaceFrom(s, 1, pat, to)

\* ------------------------------------------------------------ DataFrame
Range(s) == {s[i] : i \in 1..Len(s)}

ColumnNames(df) == [i \in 1..Len(df) |-> df[i].name]

Height(df) == IF Len(df) = 0 THEN 0 ELSE Len(df[1].vals)

\* df.column(name).is_ok()
HasColumn(df, name) == \E i \in 1..Len(df) : df[i].name = name

ColumnIndex(df, name) == CHOOSE i \in 1..Len(df) : df[i].name = name

Column(df, name) == df[ColumnIndex(df, name)].vals

\* with_columns that puts a new column in front
WithColumnFirst(df, name, vals) ==
    IF HasColumn(df, name)
    THEN [df EXCEPT ![ColumnIndex(df, name)] = [name |-> name, vals |-> vals]]
    ELSE <<[name |-> name, vals |-> vals]>> \o df

\* with_columns([expr.alias(name)]): a column of that name is replaced in
\* place, a new name is appended
WithColumn(df, name, vals) ==
    IF HasColumn(df, name)
    THEN [df EXCEPT ![ColumnIndex(df, name)] = [name |-> name, vals |-> vals]]
    ELSE Append(df, [name |-> name, vals |-> vals])

\* DataFrame::sort([time_col], SortOptions::default()): ascending, nulls
\* first, maintain_order = false.  The order of rows with equal keys is not
\* fixed by the call, so every ordering of ties is a possible outcome: the
\* result is the set of row orders p with df[time_col][p[i]] ascending.
SortOrders(df, time_col) ==
    LET n == Height(df)
        key == Column(df, time_col)
    IN  {p \in [1..n -> 1..n] :
            /\ \A i, j \in 1..n : i # j => p[i] # p[j]
            /\ \A i \in 1..n : i < n => LessEq(key[p[i]], key[p[i + 1]])}

\* DataFrame::take: the rows of df in the order p
Take(df, p) ==
    [c \in 1..Len(df) |->
        [name |-> df[c].name,
         vals |-> [i \in 1..Height(df) |-> df[c].vals[p[i]]]]]

Sort(df, time_col) == {Take(df, p) : p \in SortOrders(df, time_col)}

\* shift off by one: the first periods - 1 rows become null
ShiftShort(vals, periods) ==
    [i \in 1..Len(vals) |->
        IF i <= periods - 1 THEN Null
        ELSE IF i = periods THEN vals[1]
        ELSE vals[i - periods]]

\* Expr::shift(lit(periods)), periods >= 1: the first rows become null
Shift(vals, periods) ==
    [i \in 1..Len(vals) |-> IF i <= periods THEN Null ELSE vals[i - periods]]

\* (col(c) - col(c).shift(periods)) / col(c).shift(periods) * lit(100.0)
PctExpr(vals, periods) ==
    LET prev == Shift(vals, periods)
    IN  [i \in 1..Len(vals) |->
            Mul(Div(Sub(vals[i], prev[i]), prev[i]), Num(100, 1))]

\* the column names of df other than time_col, in column order
StockCols(df, time_col) ==
    SelectSeq(ColumnNames(df), LAMBDA c : c # time_col)

\* the loop of pct_change: one with_columns per stock column, each reading
\* the frame the previous one produced
RECURSIVE PctLoop(_, _, _, _)
PctLoop(df, stock_cols, i, periods) ==
    IF i > Len(stock_cols) THEN df
    ELSE PctLoop(WithColumn(df, PctName(stock_cols[i], periods),
                            PctExpr(Column(df, stock_cols[i]), periods)),
                 stock_cols, i + 1, periods)

\* WideTable::pct_change(&self, periods): the possible results
pct_change(self, periods) ==
    {[df |-> PctLoop(sorted, StockCols(sorted, self.time_col), 1, periods),
      time_col |-> self.time_col] : sorted \in Sort(self.df, self.time_col)}

\* rolling_sum with window_size = periods, min_periods = 1, center = false:
\* the sum of the non-null values among rows max(1, i-periods+1)..i, null
\* when the window holds no non-null value
RECURSIVE SumFrom(_, _, _)
SumFrom(vals, lo, hi) ==
    IF lo > hi THEN Null
    ELSE LET rest == SumFrom(vals, lo, hi - 1)
         IN  IF IsNull(vals[hi]) THEN rest
             ELSE IF IsNull(rest) THEN vals[hi]
             ELSE Add(rest, vals[hi])

RollingSum(vals, window_size) ==
    [i \in 1..Len(vals) |->
        SumFrom(vals, IF i - window_size + 1 < 1 THEN 1 ELSE i - window_size + 1, i)]

\* the columns momentum takes for return columns
RetCols(df, time_col) ==
    SelectSeq(ColumnNames(df), LAMBDA c : c # time_col /\ Contains(c, RetPattern))

\* the loop of momentum over ret_cols
RECURSIVE MomentumLoop(_, _, _, _)
MomentumLoop(df, ret_cols, i, periods) ==
    IF i > Len(ret_cols) THEN df
    ELSE LET base_col == Replace(ret_cols[i], RetPattern, <<>>)
             momentum_col == MomentumName(base_col, periods)
         IN  MomentumLoop(WithColumn(df, momentum_col,
                                     RollingSum(Column(df, ret_cols[i]), periods)),
                          ret_cols, i + 1, periods)

\* WideTable::momentum(&self, periods): the possible results
momentum(self, periods) ==
    {[df |-> MomentumLoop(sorted, RetCols(sorted, self.time_col), 1, periods),
      time_col |-> self.time_col] :
        sorted \in UNION {Sort(ret_table.df, self.time_col) :
                            ret_table \in pct_change(self, 1)}}

\* FactorCalculator
calculate_returns(table, periods) == pct_change(table, periods)

calculate_momentum(table, periods) == momentum(table, periods)

\* new without the check that the time column exists
new_unchecked(df, time_col) ==
    [ok |-> TRUE, table |-> [df |-> df, time_col |-> time_col]]

\* WideTable::new(df, time_col)
new(df, time_col) ==
    IF ~HasColumn(df, time_col)
    THEN [ok |-> FALSE, table |-> [df |-> <<>>, time_col |-> <<>>]]
    ELSE [ok |-> TRUE, table |-> [df |-> df, time_col |-> time_col]]

\* ---------------------------------------------------------------- inputs
DATE == <<"date">>
ColA == <<"a">>
ColARet == <<"a", PCT, "1">>
NamePool == {DATE, ColA, ColARet}
TimeKeys == {DATE, <<"ts">>}
Periods == 1..MaxPeriods

\* column layouts: the non-empty sequences of distinct names of the pool
Layouts ==
    {l \in UNION {[1..k -> NamePool] : k \in 1..Cardinality(NamePool)} :
        \A i, j \in 1..Len(l) : i # j => l[i] # l[j]}

\* the rows input frames are built from: a date and a value per pool column;
\* two rows share a date, and the rows are taken in any order
RowKinds ==
    {[date |-> 1, a |-> 1, r |-> 2],
     [date |-> 1, a |-> 2, r |-> 1],
     [date |-> 2, a |-> 1, r |-> 1]}

Cell(row, name) ==
    IF name = DATE THEN row.date ELSE IF name = ColA THEN row.a ELSE row.r

FrameOf(l, rows) ==
    [c \in 1..Len(l) |->
        [name |-> l[c],
         vals |-> [i \in 1..Len(rows) |-> Num(Cell(rows[i], l[c]), 1)]]]

SmallFrames ==
    UNION {{FrameOf(l, rows) : rows \in [1..n -> RowKinds]} :
            l \in Layouts, n \in 1..MaxRows}

Dec(n) == Num(n, 10)

\* the DataFrame main() builds: five dates, three close-price series
MainFrame ==
    <<[name |-> DATE, vals |-> <<Num(1, 1), Num(2, 1), Num(3, 1), Num(4, 1), Num(5, 1)>>],
      [name |-> <<"000001">>, vals |-> <<Dec(100), Dec(102), Dec(105), Dec(103), Dec(108)>>],
      [name |-> <<"000002">>, vals |-> <<Dec(200), Dec(205), Dec(210), Dec(208), Dec(215)>>],
      [name |-> <<"600000">>, vals |-> <<Dec(150), Dec(153), Dec(151), Dec(155), Dec(159)>>]>>

InputFrames == SmallFrames \cup {MainFrame}

\* the periods main passes to calculate_returns and to calculate_momentum
MainReturnsPeriods == 1
MainMomentumPeriods == 3

NoTable == [df |-> <<>>, time_col |-> <<>>]

\* ----------------------------------------------------------------- state
VARIABLES
    table,      \* the WideTable last returned (NoTable before new and on error)
    self,       \* the WideTable the last transform was called on
    op,         \* the last call: "none", "new", "pct_change", "momentum"
    periods,    \* the periods argument of the last transform
    arg,        \* the (df, time_col) arguments of new
    ok          \* whether new returned Ok

vars == <<table, self, op, periods, arg, ok>>

Init ==
    /\ table = NoTable
    /\ self = NoTable
    /\ op = "none"
    /\ periods = 0
    /\ arg = NoTable
    /\ ok = FALSE

\* let table = WideTable::new(df, time_col)?
New(df, time_col) ==
    /\ op = "none"
    /\ LET r == new(df, time_col)
       IN  /\ ok' = r.ok
           /\ table' = r.table
    /\ arg' = [df |-> df, time_col |-> time_col]
    /\ op' = "new"
    /\ UNCHANGED <<self, periods>>

\* Calls are chained, each on the table the previous one returned, while
\* that table has at most MaxWidth columns, with periods in Periods; on
\* main's frame only the calls main makes, on the table new returned and
\* with main's periods, are explored.
CanCall(p, main_p) ==
    /\ ok
    /\ IF arg.df = MainFrame
       THEN op = "new" /\ p = main_p
       ELSE Len(table.df) <= MaxWidth /\ p \in Periods

\* FactorCalculator::calculate_returns(&table, p), on the latest table
CalculateReturns(p) ==
    /\ CanCall(p, MainReturnsPeriods)
    /\ \E out \in calculate_returns(table, p) : table' = out
    /\ self' = table
    /\ op' = "pct_change"
    /\ periods' = p
    /\ UNCHANGED <<arg, ok>>

\* FactorCalculator::calculate_momentum(&table, p), on the latest table
CalculateMomentum(p) ==
    /\ CanCall(p, MainMomentumPeriods)
    /\ \E out \in calculate_momentum(table, p) : table' = out
    /\ self' = table
    /\ op' = "momentum"
    /\ periods' = p
    /\ UNCHANGED <<arg, ok>>

Next ==
    \/ \E df \in InputFrames, time_col \in TimeKeys : New(df, time_col)
    \/ \E p \in Periods \cup {MainReturnsPeriods} : CalculateReturns(p)
    \/ \E p \in Periods \cup {MainMomentumPeriods} : CalculateMomentum(p)

Spec == Init /\ [][Next]_vars

\* ------------------------------------------------------ claim vocabulary
Called == op \in {"pct_change", "momentum"}

NameSet(t) == Range(ColumnNames(t.df))

Assets(t) == StockCols(t.df, t.time_col)

Rows(t) == 1..Height(t.df)

Min(a, b) == IF a < b THEN a ELSE b

IsZero(x) == x.k = "num" /\ x.n = 0

EndsWith(s, pat) == Len(s) >= Len(pat) /\ MatchAt(s, Len(s) - Len(pat) + 1, pat)

\* the row orders that are permutations of the rows of t
RowPerms(t) ==
    {p \in [Rows(t) -> Rows(t)] : \A i, j \in Rows(t) : i # j => p[i] # p[j]}

\* column c of t read in the row order p
ReadIn(t, c, p) == [i \in Rows(t) |-> Column(t.df, c)[p[i]]]

\* p puts the rows of t in ascending time order
Ascending(t, p) ==
    \A i, j \in Rows(t) :
        i < j => LessEq(Column(t.df, t.time_col)[p[i]], Column(t.df, t.time_col)[p[j]])

\* p is the stable ascending order: equal times keep their input order
Stable(t, p) ==
    /\ Ascending(t, p)
    /\ \A i, j \in Rows(t) :
        (i < j /\ Column(t.df, t.time_col)[p[i]] = Column(t.df, t.time_col)[p[j]])
            => p[i] < p[j]

\* out is (x - y) / y * 100 for rationals x, y, y # 0 (by cross-multiplication)
IsPctOf(out, x, y) ==
    /\ out.k = "num"
    /\ out.n * (y.n * x.d) = out.d * 100 * (x.n * y.d - y.n * x.d)

\* ------------------------------------------------------------------- C1
\* C1: WideTable::new(df, time_col) returns Ok exactly when time_col names a
\* column of df; on Ok the table holds the supplied key and the supplied
\* frame unchanged (not sorted); on Err no table is produced.
C1_NewIffTimeColPresent ==
    op = "new" =>
        /\ ok <=> (arg.time_col \in NameSet(arg))
        /\ ok => (table.time_col = arg.time_col /\ table.df = arg.df)
        /\ ~ok => table = NoTable

\* new has accepted a frame whose rows are not in time order
C1_Witness ==
    /\ op = "new"
    /\ ok
    /\ \E i \in Rows(table) :
        /\ i + 1 \in Rows(table)
        /\ ~LessEq(Column(table.df, table.time_col)[i],
                   Column(table.df, table.time_col)[i + 1])

\* ------------------------------------------------------------------- C2
\* C2 as stated: after pct_change(periods) on any table, each non-time
\* column c without a zero value has a column c_pct_change_{periods} that is
\* undefined in exactly its first `periods` rows, and the call adds as many
\* columns as the input has non-time columns.
C2_Original ==
    op = "pct_change" =>
        /\ \A c \in Range(Assets(self)) :
            (\A i \in Rows(self) : ~IsZero(Column(self.df, c)[i])) =>
                /\ HasColumn(table.df, PctName(c, periods))
                /\ \A i \in Rows(table) :
                    IsNull(Column(table.df, PctName(c, periods))[i]) <=> i <= periods
        /\ Len(table.df) - Len(self.df) = Len(Assets(self))

\* c is a column whose own values pct_change reads: it holds no undefined
\* value and no zero, and its name is not the derived name of another column
Plain(t, c, p) ==
    /\ \A i \in Rows(t) : ~IsNull(Column(t.df, c)[i]) /\ ~IsZero(Column(t.df, c)[i])
    /\ \A b \in Range(Assets(t)) : PctName(b, p) # c

\* C2 amended: after pct_change(periods) every non-time column c has a column
\* c_pct_change_{periods} whose first min(periods, rows) values are undefined;
\* every later row of it is defined when c holds no undefined value and no
\* zero and is not itself named as the derived column of another column; the
\* call adds one column per non-time column whose derived name is not
\* already a column of the input.
C2_LeadingUndefined ==
    op = "pct_change" =>
        /\ \A c \in Range(Assets(self)) :
            /\ HasColumn(table.df, PctName(c, periods))
            /\ \A i \in Rows(table) :
                i <= periods => IsNull(Column(table.df, PctName(c, periods))[i])
            /\ Plain(self, c, periods) =>
                \A i \in Rows(table) :
                    i > periods => ~IsNull(Column(table.df, PctName(c, periods))[i])
        /\ Len(table.df) - Len(self.df) =
            Cardinality({c \in Range(Assets(self)) : PctName(c, periods) \notin NameSet(self)})

\* pct_change has produced defined values below the undefined rows of a
\* plain column, on a table that an earlier call returned
C2_Witness ==
    /\ op = "pct_change"
    /\ Height(table.df) > periods
    /\ \E c \in Range(Assets(self)) :
        /\ Plain(self, c, periods)
        /\ ~IsNull(Column(table.df, PctName(c, periods))[periods + 1])
    /\ \E c \in Range(Assets(self)) : \E i \in Rows(self) : IsNull(Column(self.df, c)[i])

\* ------------------------------------------------------------------- C3
\* C3 as stated: after pct_change(periods), for every non-time column c of
\* the input and every row i > periods, c_pct_change_{periods} holds
\* (v[i] - v[i-periods]) / v[i-periods] * 100 where v is the input's column c
\* read in a time-ascending order of the input's rows; on main's closes with
\* periods = 1 the values are null, 2, 50/17, -40/21 and 500/103.
C3_Original ==
    op = "pct_change" =>
        /\ \E p \in RowPerms(self) :
            /\ Ascending(self, p)
            /\ \A c \in Range(Assets(self)) :
                /\ HasColumn(table.df, PctName(c, periods))
                /\ \A i \in Rows(self) :
                    LET v == ReadIn(self, c, p)
                    IN  (i > periods /\ v[i].k = "num" /\ v[i - periods].k = "num"
                            /\ ~IsZero(v[i - periods]))
                        => IsPctOf(Column(table.df, PctName(c, periods))[i],
                                   v[i], v[i - periods])
        /\ (arg.df = MainFrame /\ periods = 1) =>
            Column(table.df, PctName(<<"000001">>, 1)) =
                <<Null, Num(2, 1), Num(50, 17), Num(-40, 21), Num(500, 103)>>

\* ------------------------------------------------------------------- C4
\* C4 as stated: after momentum(periods), every non-time column c of the
\* input has a column c_momentum_{periods} whose row i is the sum of the
\* defined one-period returns of c (the column c_pct_change_1 of the output)
\* over rows max(1, i-periods+1)..i, undefined only when none is defined; on
\* main's closes with periods = 3, row 2 (0-based) is 2 + 50/17.
C4_Original ==
    op = "momentum" =>
        /\ \A c \in Range(Assets(self)) :
            /\ HasColumn(table.df, MomentumName(c, periods))
            /\ HasColumn(table.df, PctName(c, 1))
            /\ \A i \in Rows(table) :
                LET r == Column(table.df, PctName(c, 1))
                    lo == IF i - periods + 1 < 1 THEN 1 ELSE i - periods + 1
                IN  Column(table.df, MomentumName(c, periods))[i] = SumFrom(r, lo, i)
        /\ (arg.df = MainFrame /\ periods = 3) =>
            Column(table.df, MomentumName(<<"000001">>, 3))[3] = Num(84, 17)

\* ------------------------------------------------------------------- C5
\* C5 as stated: after momentum(1), every non-time column c of the input has
\* a column c_momentum_1 equal in every row, the first included, to the
\* column c_pct_change_1 that pct_change(1) gives for the same rows.
C5_Original ==
    (op = "momentum" /\ periods = 1) =>
        \A c \in Range(Assets(self)) :
            /\ HasColumn(table.df, MomentumName(c, 1))
            /\ HasColumn(table.df, PctName(c, 1))
            /\ Column(table.df, MomentumName(c, 1)) = Column(table.df, PctName(c, 1))

\* ------------------------------------------------------------------- C6
\* C6 as stated: a transform only adds columns: every column of its input is
\* in its output under the same name and with the same value in each row
\* (the rows being those of the input in the output's order).
C6_Original ==
    Called =>
        \E p \in RowPerms(self) :
            \A c \in NameSet(self) :
                /\ HasColumn(table.df, c)
                /\ Column(table.df, c) = ReadIn(self, c, p)

RECURSIVE FirstNew(_, _)
FirstNew(s, seen) ==
    IF s = <<>> THEN <<>>
    ELSE IF Head(s) \in seen THEN FirstNew(Tail(s), seen)
    ELSE <<Head(s)>> \o FirstNew(Tail(s), seen \cup {Head(s)})

\* the derived names pct_change(p) computes on a table with columns names
PctNames(names, time_col, p) ==
    LET stock == SelectSeq(names, LAMBDA c : c # time_col)
    IN  [i \in 1..Len(stock) |-> PctName(stock[i], p)]

\* the derived names momentum(p) computes on the returns table with columns
\* names
MomentumNames(names, time_col, p) ==
    LET ret == SelectSeq(names, LAMBDA c : c # time_col /\ Contains(c, RetPattern))
    IN  [i \in 1..Len(ret) |-> MomentumName(Replace(ret[i], RetPattern, <<>>), p)]

\* C8 as stated: the output has the time column first, then the input's
\* non-time columns in input order, then the derived columns; after
\* pct_change the derived columns are in the order of the non-time columns.
C8_Original ==
    Called =>
        LET names == ColumnNames(table.df)
            k == Len(Assets(self))
        IN  /\ Len(names) >= k + 1
            /\ names[1] = self.time_col
            /\ SubSeq(names, 2, k + 1) = Assets(self)
            /\ op = "pct_change" =>
                SubSeq(names, k + 2, Len(names)) =
                    PctNames(ColumnNames(self.df), self.time_col, periods)

\* C8 amended: the output keeps the input's columns in input order, the
\* time column at its input position (it is not moved to the front), and
\* appends the derived columns whose names are not already present, each
\* once, in computation order: after pct_change in the order of the non-time
\* columns; after momentum the one-period-return columns in that order, then
\* the momentum columns in the order of the return columns.
C8_ColumnOrder ==
    Called =>
        LET in == ColumnNames(self.df)
            p1 == IF op = "pct_change" THEN periods ELSE 1
            ret == in \o FirstNew(PctNames(in, self.time_col, p1), Range(in))
        IN  ColumnNames(table.df) =
                IF op = "pct_change" THEN ret
                ELSE ret \o FirstNew(MomentumNames(ret, self.time_col, periods), Range(ret))

\* a transform has added columns to a table whose time column is not first
C8_Witness ==
    /\ Called
    /\ self.df[1].name # self.time_col
    /\ Len(Assets(self)) >= 2
    /\ Len(table.df) > Len(self.df)

\* ------------------------------------------------------------------- C9
\* C9 as stated: after momentum(periods), every non-time column of the
\* output whose name ends with "_pct_change_1" has, under its name with that
\* suffix removed and "_momentum_{periods}" added, a column holding its
\* trailing rolling sum; every column the call adds under a name ending with
\* "_momentum_{periods}" is the momentum column of such a return column.
C9_Original ==
    op = "momentum" =>
        LET rets == {r \in NameSet(table) :
                        r # table.time_col /\ EndsWith(r, RetPattern)}
            MomOf(r) ==
                MomentumName(SubSeq(r, 1, Len(r) - Len(RetPattern)), periods)
        IN  /\ \A r \in rets :
                /\ HasColumn(table.df, MomOf(r))
                /\ Column(table.df, MomOf(r)) = RollingSum(Column(table.df, r), periods)
            /\ \A m \in NameSet(table) \ NameSet(self) :
                EndsWith(m, <<MOM>> \o Digits(periods)) => \E r \in rets : m = MomOf(r)

\* ------------------------------------------------------------------ C10
\* a column name that no transform writes: it holds no derived-name chunk
Underived(c) == ~Contains(c, <<PCT>>) /\ ~Contains(c, <<MOM>>)

\* C10 as stated: the rows of the output are the rows of the input in
\* ascending time order, rows of equal time in their input order.
C10_Original ==
    Called =>
        \E p \in RowPerms(self) :
            /\ Stable(self, p)
            /\ \A c \in NameSet(self) :
                Underived(c) => Column(table.df, c) = ReadIn(self, c, p)

====
